---- MODULE Spec2Model ----
(***************************************************************************)
(* HR system on a spreadsheet Record Store: the loan ledger (Loans.js) and *)
(* payslip creation (Payroll.js).                                          *)
(*                                                                         *)
(* A sheet is the sequence of its data rows in storage order (row i of the *)
(* model is sheet row i + 1, below the header row); a row is a record      *)
(* keyed by the header names.  A JavaScript object is a record whose       *)
(* DOMAIN is the set of its own properties: an absent property is an       *)
(* absent key.  Dates are day numbers (what getTime() orders) and amounts  *)
(* are integers.                                                           *)
(*                                                                         *)
(* The header rows are data of the store, not of the source.  The model    *)
(* takes each sheet to carry the headers its readers look up: the employee *)
(* object has the property `id` that addLoanTransaction reads, and the     *)
(* sheet names used for the ledger ('loans', 'EmployeeLoans') and for the  *)
(* payslips ('salary', 'MASTERSALARY') each denote one collection.         *)
(***************************************************************************)
EXTENDS Integers, Sequences, FiniteSets, TLC

VARIABLES
  employees,  \* 'EMPLOYEE DETAILS' data rows
  loans,      \* 'loans' data rows
  salary,     \* 'salary' data rows
  now,        \* the clock new Date() reads
  last,       \* the last completed call: its name, argument and result
  procs,      \* the addLoanTransaction executions in progress
  pending,    \* 'PendingTimesheets' data rows
  returned    \* what calculatePayslip returned to its callers so far

vars == <<employees, loans, salary, now, last, procs, pending, returned>>

-----------------------------------------------------------------------------
(* Bounds *)

MaxRows == 3        \* loan rows the model appends
MaxPayslips == 3    \* payslip rows the model appends

Dates == {1, 2, 3}
Amounts == {1, 2}
RandomDraws == {0}  \* values of Math.floor(Math.random() * 900000)

-----------------------------------------------------------------------------
(* JavaScript values *)

Null == [null |-> TRUE]

\* A cell written null or undefined is empty, and reads back as ''.
EmptyCell == ""

Has(obj, key) == key \in DOMAIN obj

\* !obj[key] for a numeric property: undefined and 0 are falsy
FalsyNum(obj, key) == ~Has(obj, key) \/ obj[key] = 0

\* !obj[key] for a string property: undefined and '' are falsy
FalsyStr(obj, key) == ~Has(obj, key) \/ obj[key] = ""

\* obj[key] || null, as the cell it is stored in
OrNull(obj, key) == IF FalsyStr(obj, key) THEN EmptyCell ELSE obj[key]

Abs(x) == IF x < 0 THEN -x ELSE x

-----------------------------------------------------------------------------
(* Employees.js *)

getEmployeeByName(emps, name) ==
  LET hits == {i \in 1..Len(emps) : emps[i]["EMPLOYEE NAME"] = name}
  IN IF hits = {} THEN Null
     ELSE emps[CHOOSE i \in hits : \A j \in hits : i <= j]

-----------------------------------------------------------------------------
(* Utils.js *)

generateUUID(random) == ToString(100000 + random)

-----------------------------------------------------------------------------
(* Loans.js *)

\* validateLoan with `< 0` for `<= 0`: a zero amount passes.
validateLoanAllowsZero(data) ==
  LET e1 == IF FalsyStr(data, "Employee Name")
            THEN <<"Employee name is required.">> ELSE <<>>
      e2 == IF ~Has(data, "LoanAmount") \/ data.LoanAmount < 0
            THEN <<"Loan amount must be a positive number.">> ELSE <<>>
      e3 == IF FalsyNum(data, "TransactionDate")
            THEN <<"Transaction date is required.">> ELSE <<>>
      errors == e1 \o e2 \o e3
  IN [isValid |-> Len(errors) = 0, errors |-> errors]

\* validateLoan that stops at the first violated rule.
validateLoanFirstOnly(data) ==
  LET e1 == IF FalsyStr(data, "Employee Name")
            THEN <<"Employee name is required.">> ELSE <<>>
      e2 == IF FalsyNum(data, "LoanAmount") \/ data.LoanAmount <= 0
            THEN <<"Loan amount must be a positive number.">> ELSE <<>>
      e3 == IF FalsyNum(data, "TransactionDate")
            THEN <<"Transaction date is required.">> ELSE <<>>
      errors == SubSeq(e1 \o e2 \o e3, 1, 1)
  IN [isValid |-> Len(errors) = 0, errors |-> errors]

validateLoan(data) ==
  LET e1 == IF FalsyStr(data, "Employee Name")
            THEN <<"Employee name is required.">> ELSE <<>>
      e2 == IF FalsyNum(data, "LoanAmount") \/ data.LoanAmount <= 0
            THEN <<"Loan amount must be a positive number.">> ELSE <<>>
      e3 == IF FalsyNum(data, "TransactionDate")
            THEN <<"Transaction date is required.">> ELSE <<>>
      errors == e1 \o e2 \o e3
  IN [isValid |-> Len(errors) = 0, errors |-> errors]

\* The comparator of getLoanHistory without its TransactionDate branch.
compareTransactionsByTimestamp(a, b) == a.Timestamp - b.Timestamp

\* The comparator of getLoanHistory's sort: by TransactionDate, then by
\* Timestamp.
compareTransactions(a, b) ==
  IF a.TransactionDate # b.TransactionDate
  THEN a.TransactionDate - b.TransactionDate
  ELSE a.Timestamp - b.Timestamp

\* Array.prototype.sort (stable) under compareTransactions, on row indices:
\* idx goes behind every element that does not compare greater than it.
RECURSIVE insertTransaction(_, _, _)
insertTransaction(ls, sorted, idx) ==
  IF sorted = <<>> THEN <<idx>>
  ELSE IF compareTransactions(ls[Head(sorted)], ls[idx]) <= 0
       THEN <<Head(sorted)>> \o insertTransaction(ls, Tail(sorted), idx)
       ELSE <<idx>> \o sorted

RECURSIVE sortTransactions(_, _)
sortTransactions(ls, idxs) ==
  IF idxs = <<>> THEN <<>>
  ELSE insertTransaction(ls,
         sortTransactions(ls, SubSeq(idxs, 1, Len(idxs) - 1)),
         idxs[Len(idxs)])

\* getLoanHistory without its sort: the rows in storage order.
transactionsUnsorted(ls, employeeId) ==
  SelectSeq([i \in 1..Len(ls) |-> i],
            LAMBDA i : ls[i]["Employee ID"] = employeeId)

\* The transactions of getLoanHistory, as row indices: the employee's
\* rows, sorted.
transactions(ls, employeeId) ==
  sortTransactions(ls, SelectSeq([i \in 1..Len(ls) |-> i],
                         LAMBDA i : ls[i]["Employee ID"] = employeeId))

getLoanHistory(ls, employeeId) ==
  LET order == transactions(ls, employeeId)
  IN [k \in 1..Len(order) |-> ls[order[k]]]

getCurrentLoanBalance(ls, employeeId) ==
  LET history == getLoanHistory(ls, employeeId)
  IN IF Len(history) = 0 THEN 0 ELSE history[Len(history)].BalanceAfter

\* The comparator without its TransactionDate branch: recording order.
compareRowsByTimestamp(a, b) == a.Timestamp - b.Timestamp

\* The comparator of recalculateLoanBalances' sort.
compareRows(a, b) ==
  IF a.TransactionDate # b.TransactionDate
  THEN a.TransactionDate - b.TransactionDate
  ELSE a.Timestamp - b.Timestamp

RECURSIVE insertRow(_, _, _)
insertRow(ls, sorted, idx) ==
  IF sorted = <<>> THEN <<idx>>
  ELSE IF compareRows(ls[Head(sorted)], ls[idx]) <= 0
       THEN <<Head(sorted)>> \o insertRow(ls, Tail(sorted), idx)
       ELSE <<idx>> \o sorted

RECURSIVE sortRows(_, _)
sortRows(ls, idxs) ==
  IF idxs = <<>> THEN <<>>
  ELSE insertRow(ls, sortRows(ls, SubSeq(idxs, 1, Len(idxs) - 1)),
                 idxs[Len(idxs)])

\* employeeRows without the filter: every row of the sheet.
filterRowsAll(ls, employeeId) == [i \in 1..Len(ls) |-> i]

\* employeeRows of recalculateLoanBalances before the sort: the rowIndex of
\* each row of the employee, in storage order.
filterRows(ls, employeeId) ==
  SelectSeq([i \in 1..Len(ls) |-> i],
            LAMBDA i : ls[i]["Employee ID"] = employeeId)

\* employeeRows with the sort left out.
employeeRowsUnsorted(ls, employeeId) == filterRows(ls, employeeId)

\* employeeRows after the sort.
employeeRows(ls, employeeId) == sortRows(ls, filterRows(ls, employeeId))

\* The setValue calls of recalculateLoanBalances, in the order it makes
\* them: for each row of the snapshot, BalanceBefore and then BalanceAfter.
RECURSIVE BalanceWrites(_, _, _)
BalanceWrites(snapshot, order, currentBalance) ==
  IF order = <<>> THEN <<>>
  ELSE LET loanAmount == snapshot[Head(order)].LoanAmount
       IN << [row |-> Head(order), col |-> "BalanceBefore",
              value |-> currentBalance],
             [row |-> Head(order), col |-> "BalanceAfter",
              value |-> currentBalance + loanAmount] >>
          \o BalanceWrites(snapshot, Tail(order), currentBalance + loanAmount)

\* The walk started from the stored balance instead of 0.
recalcWritesFromCurrent(snapshot, employeeId) ==
  BalanceWrites(snapshot, employeeRows(snapshot, employeeId),
                getCurrentLoanBalance(snapshot, employeeId))

\* recalculateLoanBalances up to its writes: what it will write, from the
\* snapshot getValues() returned.
recalcWrites(snapshot, employeeId) ==
  BalanceWrites(snapshot, employeeRows(snapshot, employeeId), 0)

\* setValue that misses the BalanceBefore column.
setValueBalanceAfterOnly(ls, w) ==
  IF w.col = "BalanceAfter" THEN [ls EXCEPT ![w.row][w.col] = w.value] ELSE ls

\* sheet.getRange(row, col).setValue(value)
setValue(ls, w) == [ls EXCEPT ![w.row][w.col] = w.value]

\* The first n of the writes ws, applied to the sheet.
RECURSIVE ApplyWrites(_, _, _)
ApplyWrites(ls, ws, n) ==
  IF n = 0 \/ ws = <<>> THEN ls
  ELSE ApplyWrites(setValue(ls, Head(ws)), Tail(ws), n - 1)

recalculateLoanBalances(ls, employeeId) ==
  LET ws == recalcWrites(ls, employeeId)
  IN ApplyWrites(ls, ws, Len(ws))

\* The amount stored as the caller gave it.
signedAmountAsGiven(data) == data.LoanAmount

signedAmount(data) ==
  IF data.LoanType = "Repayment"
  THEN -Abs(data.LoanAmount) ELSE Abs(data.LoanAmount)

\* The header row of the loans sheet: the columns addLoanTransaction sets
\* and two it copies from the form.
LoanHeaders ==
  { "LoanID", "Employee ID", "Employee Name", "LoanType", "LoanAmount",
    "TransactionDate", "Timestamp", "BalanceBefore", "BalanceAfter" }

\* headers.map(...) of addLoanTransaction
newLoanRow(data, employeeId, uuid, timestamp, balanceBefore) ==
  [ header \in LoanHeaders |->
      CASE header = "LoanID" -> uuid
        [] header = "Employee ID" -> employeeId
        [] header = "Timestamp" -> timestamp
        [] header = "TransactionDate" -> data.TransactionDate
        [] header = "LoanAmount" -> signedAmount(data)
        [] header = "BalanceBefore" -> balanceBefore
        [] header = "BalanceAfter" -> balanceBefore + signedAmount(data)
        [] OTHER -> OrNull(data, header) ]

\* A Record Store call that throws.  [at |-> "none"]: none does.
\* [at |-> "before", n |-> k]: a call before appendRow returns throws, after
\* k setValue calls of the first recalculation.  [at |-> "after", n |-> k]:
\* a call of the second recalculation throws, after k of its setValue calls.
NoFault == [at |-> "none"]

\* What the catch block returns.
Caught ==
  [ success |-> FALSE,
    message |-> "An error occurred while adding the loan transaction." ]

\* addLoanTransaction: the sheet it leaves and the object it returns.
addLoanTransaction(emps, ls, timestamp, data, uuid, fault) ==
  LET validation == validateLoan(data) IN
  IF ~validation.isValid
  THEN [loans |-> ls,
        result |-> [success |-> FALSE, errors |-> validation.errors]]
  ELSE
  LET employee == getEmployeeByName(emps, data["Employee Name"]) IN
  IF employee = Null
  THEN [loans |-> ls,
        result |-> [success |-> FALSE, message |-> "Employee not found."]]
  ELSE
  LET employeeId == employee.id
      ws1 == recalcWrites(ls, employeeId)
  IN
  IF fault.at = "before"
  THEN [loans |-> ApplyWrites(ls, ws1, fault.n), result |-> Caught]
  ELSE
  LET before == ApplyWrites(ls, ws1, Len(ws1))
      balanceBefore == getCurrentLoanBalance(before, employeeId)
      appended == Append(before,
                    newLoanRow(data, employeeId, uuid, timestamp, balanceBefore))
      ws2 == recalcWrites(appended, employeeId)
  IN
  IF fault.at = "after"
  THEN [loans |-> ApplyWrites(appended, ws2, fault.n), result |-> Caught]
  ELSE [loans |-> ApplyWrites(appended, ws2, Len(ws2)),
        result |-> [success |-> TRUE,
                    message |-> "Loan transaction added successfully."]]

\* Whether the store can throw at `fault` in this call: the call reaches a
\* store call there.
FaultPossible(emps, ls, data, fault) ==
  /\ validateLoan(data).isValid
  /\ getEmployeeByName(emps, data["Employee Name"]) # Null
  /\ LET employeeId == getEmployeeByName(emps, data["Employee Name"]).id
         n1 == Len(recalcWrites(ls, employeeId))
     IN \/ fault.at = "before" /\ fault.n \in 0..n1
        \/ fault.at = "after" /\ fault.n \in 0..(n1 + 1)

-----------------------------------------------------------------------------
(* The inputs of the model *)

Names == {"Ann", "Bob"}

LoanTypes == {"Disbursement", "Repayment"}

\* The loan form: an object with the properties the form filled in.
LoanData(name, amount, date, type) ==
  ("Employee Name" :> name) @@ ("LoanAmount" :> amount)
    @@ ("TransactionDate" :> date) @@ ("LoanType" :> type)

\* Disbursements of each amount and repayments of 1, for each employee and
\* date.
ValidLoanInputs ==
  { data \in { LoanData(name, amount, date, type) :
                 name \in Names, amount \in Amounts, date \in Dates,
                 type \in LoanTypes } :
      data.LoanType = "Repayment" => data.LoanAmount = 1 }

\* One input per rejected case: the name absent, empty or unknown, the
\* amount absent, zero or negative, the date absent, and several at once.
RejectedLoanInputs ==
  { ("LoanAmount" :> 2) @@ ("TransactionDate" :> 1)
      @@ ("LoanType" :> "Disbursement"),
    LoanData("", 2, 1, "Disbursement"),
    LoanData("Zed", 2, 1, "Disbursement"),
    ("Employee Name" :> "Ann") @@ ("TransactionDate" :> 1)
      @@ ("LoanType" :> "Repayment"),
    LoanData("Ann", 0, 1, "Repayment"),
    LoanData("Ann", -1, 1, "Disbursement"),
    ("Employee Name" :> "Bob") @@ ("LoanAmount" :> 1)
      @@ ("LoanType" :> "Repayment"),
    ("Employee Name" :> "Zed") @@ ("LoanAmount" :> 0)
      @@ ("LoanType" :> "Repayment") }

\* The inputs of the specifications with store failures and with
\* concurrent callers: each employee borrows on day 2 and has a transaction
\* backdated to day 1.
FaultLoanInputs ==
  { LoanData("Ann", 2, 2, "Disbursement"),
    LoanData("Ann", 1, 1, "Repayment"),
    LoanData("Bob", 2, 2, "Disbursement"),
    LoanData("Bob", 1, 1, "Disbursement") }

Faults ==
  [at : {"before", "after"}, n : 0..(2 * MaxRows)]

EmployeeRow(name, id, rate, status) ==
  ("EMPLOYEE NAME" :> name) @@ ("id" :> id) @@ ("HOURLY RATE" :> rate)
    @@ ("EMPLOYMENT STATUS" :> status)

EmployeeIds(emps) == {emps[i].id : i \in 1..Len(emps)}

\* The concurrent executions of addLoanTransaction.
Procs == {1, 2}

Idle ==
  [ pc |-> "idle", data |-> Null, uuid |-> "", employeeId |-> "",
    ws |-> <<>>, newRow |-> Null, result |-> Null ]

-----------------------------------------------------------------------------
(* The store after set-up *)

Init ==
  /\ employees = << EmployeeRow("Ann", "E1", 120, "Permanent"),
                    EmployeeRow("Bob", "E2", 60, "Temporary") >>
  /\ loans = <<>>
  /\ salary = <<>>
  /\ now = 1
  /\ last = [op |-> "none"]
  /\ procs = [p \in Procs |-> Idle]
  /\ pending = <<>>
  /\ returned = {}

-----------------------------------------------------------------------------
(* Ledger calls that run to completion, one after another *)

\* addLoanTransaction(data), the store throwing at `fault`.
AddLoan(data, random, fault) ==
  LET out == addLoanTransaction(employees, loans, now, data,
                                generateUUID(random), fault)
  IN /\ Len(loans) < MaxRows
     /\ loans' = out.loans
     /\ now' = IF Len(out.loans) > Len(loans) THEN now + 1 ELSE now
     /\ last' = [op |-> "addLoanTransaction", data |-> data,
                 fault |-> fault.at, result |-> out.result]
     /\ UNCHANGED <<employees, salary, procs, pending, returned>>

AddLoanTransaction ==
  \E data \in ValidLoanInputs, random \in RandomDraws :
    AddLoan(data, random, NoFault)

Next == AddLoanTransaction

Spec == Init /\ [][Next]_vars

-----------------------------------------------------------------------------
(* The same calls on a store that can fail *)

AddLoanTransactionOk ==
  \E data \in FaultLoanInputs \cup RejectedLoanInputs, random \in RandomDraws :
    AddLoan(data, random, NoFault)

AddLoanTransactionThrows ==
  \E data \in FaultLoanInputs, random \in RandomDraws, fault \in Faults :
    /\ FaultPossible(employees, loans, data, fault)
    /\ AddLoan(data, random, fault)

\* recalculateLoanBalances(employeeId), run on its own (a repair).
RecalculateLoanBalances ==
  \E employeeId \in EmployeeIds(employees) :
    /\ loans' = recalculateLoanBalances(loans, employeeId)
    /\ last' = [op |-> "recalculateLoanBalances", data |-> employeeId,
                result |-> [success |-> TRUE]]
    /\ UNCHANGED <<employees, salary, now, procs, pending, returned>>

\* The same call, a setValue throwing after n writes.
RecalculateLoanBalancesThrows ==
  \E employeeId \in EmployeeIds(employees), n \in 0..(2 * MaxRows) :
    LET ws == recalcWrites(loans, employeeId) IN
    /\ n < Len(ws)
    /\ loans' = ApplyWrites(loans, ws, n)
    /\ last' = [op |-> "recalculateLoanBalances", data |-> employeeId,
                result |-> [success |-> FALSE]]
    /\ UNCHANGED <<employees, salary, now, procs, pending, returned>>

FaultNext ==
  \/ AddLoanTransactionOk
  \/ AddLoanTransactionThrows
  \/ RecalculateLoanBalances
  \/ RecalculateLoanBalancesThrows

FaultSpec == Init /\ [][FaultNext]_vars

-----------------------------------------------------------------------------
(* Two executions of addLoanTransaction at once.  The script takes no lock *)
(* (no LockService call), so the executions interleave at every Record     *)
(* Store call: each getValues, setValue and appendRow is one step.         *)

\* validateLoan, getEmployeeByName: the call is accepted, or returns.
Begin(p) ==
  \E data \in FaultLoanInputs, random \in RandomDraws :
    LET validation == validateLoan(data)
        employee == getEmployeeByName(employees, data["Employee Name"])
    IN /\ procs[p].pc = "idle"
       /\ procs' = [procs EXCEPT ![p] =
            IF ~validation.isValid
            THEN [Idle EXCEPT !.pc = "done", !.data = data,
                   !.result = [success |-> FALSE,
                               errors |-> validation.errors]]
            ELSE IF employee = Null
            THEN [Idle EXCEPT !.pc = "done", !.data = data,
                   !.result = [success |-> FALSE,
                               message |-> "Employee not found."]]
            ELSE [Idle EXCEPT !.pc = "recalc1", !.data = data,
                   !.uuid = generateUUID(random),
                   !.employeeId = employee.id]]
       /\ UNCHANGED <<employees, loans, salary, now, last, pending, returned>>

\* getValues() of the first recalculateLoanBalances: the snapshot fixes
\* every value it will write.
Read1(p) ==
  LET ws == recalcWrites(loans, procs[p].employeeId) IN
  /\ procs[p].pc = "recalc1"
  /\ procs' = [procs EXCEPT ![p].ws = ws,
                            ![p].pc = IF ws = <<>> THEN "balance" ELSE "write1"]
  /\ UNCHANGED <<employees, loans, salary, now, last, pending, returned>>

\* One setValue of the first recalculateLoanBalances.
Write1(p) ==
  /\ procs[p].pc = "write1"
  /\ loans' = setValue(loans, Head(procs[p].ws))
  /\ procs' = [procs EXCEPT ![p].ws = Tail(@),
                 ![p].pc = IF Len(procs[p].ws) = 1 THEN "balance" ELSE "write1"]
  /\ UNCHANGED <<employees, salary, now, last, pending, returned>>

\* getCurrentLoanBalance (one getValues), then the new row with new Date().
ReadBalance(p) ==
  /\ procs[p].pc = "balance"
  /\ procs' = [procs EXCEPT ![p].pc = "append",
       ![p].newRow = newLoanRow(procs[p].data, procs[p].employeeId,
                       procs[p].uuid, now,
                       getCurrentLoanBalance(loans, procs[p].employeeId))]
  /\ now' = now + 1
  /\ UNCHANGED <<employees, loans, salary, last, pending, returned>>

\* sheet.appendRow(newRow)
AppendRow(p) ==
  /\ procs[p].pc = "append"
  /\ loans' = Append(loans, procs[p].newRow)
  /\ procs' = [procs EXCEPT ![p].pc = "recalc2"]
  /\ UNCHANGED <<employees, salary, now, last, pending, returned>>

\* getValues() of the second recalculateLoanBalances.
Read2(p) ==
  /\ procs[p].pc = "recalc2"
  /\ procs' = [procs EXCEPT ![p].ws = recalcWrites(loans, procs[p].employeeId),
                            ![p].pc = "write2"]
  /\ UNCHANGED <<employees, loans, salary, now, last, pending, returned>>

\* One setValue of the second recalculateLoanBalances; after the last one
\* the call returns success.
Write2(p) ==
  /\ procs[p].pc = "write2"
  /\ loans' = setValue(loans, Head(procs[p].ws))
  /\ procs' = [procs EXCEPT ![p].ws = Tail(@),
       ![p].pc = IF Len(procs[p].ws) = 1 THEN "done" ELSE "write2",
       ![p].result = IF Len(procs[p].ws) = 1
                     THEN [success |-> TRUE,
                           message |-> "Loan transaction added successfully."]
                     ELSE Null]
  /\ UNCHANGED <<employees, salary, now, last, pending, returned>>

ConcNext ==
  \E p \in Procs :
    \/ Begin(p)
    \/ Read1(p)
    \/ Write1(p)
    \/ ReadBalance(p)
    \/ AppendRow(p)
    \/ Read2(p)
    \/ Write2(p)

ConcSpec == Init /\ [][ConcNext]_vars

-----------------------------------------------------------------------------
(* Payroll.js.  A payslip cell or form value can be of any JavaScript type *)
(* (column 1 holds what createPayslip put there), so payroll values carry  *)
(* their type.  Numbers are exact fractions: the model computes the         *)
(* formulas of calculatePayslip without the rounding of IEEE doubles.      *)

RECURSIVE GCD(_, _)
GCD(a, b) == IF b = 0 THEN a ELSE GCD(b, a % b)

\* The number n / d, d > 0, in lowest terms.
Rat(n, d) ==
  LET g == GCD(Abs(n), d)
  IN [t |-> "number", num |-> n \div g, den |-> d \div g]

Num(n) == [t |-> "number", num |-> n, den |-> 1]
Str(s) == [t |-> "string", s |-> s]
Date(d) == [t |-> "date", d |-> d]

Plus(a, b) == Rat(a.num * b.den + b.num * a.den, a.den * b.den)
\* Subtraction taken for addition.
MinusAsPlus(a, b) == Rat(a.num * b.den + b.num * a.den, a.den * b.den)

Minus(a, b) == Rat(a.num * b.den - b.num * a.den, a.den * b.den)
Times(a, b) == Rat(a.num * b.num, a.den * b.den)
\* < taken for <=.
LessOrEqual(a, b) == a.num * b.den <= b.num * a.den

Less(a, b) == a.num * b.den < b.num * a.den

\* ToBoolean: 0 and '' are falsy, every Date is truthy.
Truthy(v) ==
  CASE v.t = "number" -> v.num # 0
    [] v.t = "string" -> v.s # ""
    [] OTHER -> TRUE

\* !obj[key]
Falsy(obj, key) == ~Has(obj, key) \/ ~Truthy(obj[key])

\* parseFloat(obj[key]) || 0.  The strings of the model are not numerals:
\* parseFloat gives NaN for them, as for undefined and for a Date.
parseFloatOr0(obj, key) ==
  IF Has(obj, key) /\ obj[key].t = "number" THEN obj[key] ELSE Num(0)

\* v + 1: string concatenation when v is a string.
PlusOne(v) ==
  IF v.t = "string" THEN Str(v.s \o "1") ELSE Plus(v, Num(1))

validatePayslip(data) ==
  LET hours == parseFloatOr0(data, "HOURS")
      overtimeHours == parseFloatOr0(data, "OVERTIMEHOURS")
      e1 == IF Falsy(data, "EMPLOYEE NAME")
            THEN <<"Employee Name is required">> ELSE <<>>
      e2 == IF Falsy(data, "WEEKENDING")
            THEN <<"Week Ending date is required">> ELSE <<>>
      e3 == IF Less(hours, Num(0)) \/ Less(overtimeHours, Num(0))
            THEN <<"Hours cannot be negative">> ELSE <<>>
      e4 == IF Less(Num(168), Plus(hours, overtimeHours))
            THEN <<"Total hours exceed maximum possible (168 hours/week)">>
            ELSE <<>>
      errors == e1 \o e2 \o e3 \o e4
  IN [isValid |-> Len(errors) = 0, errors |-> errors]

\* calculatePayslip reading the salary sheet: the gross salary taken from
\* the number of stored payslips.
calculatePayslipReadsSalary(emps, data) ==
  [ threw |-> FALSE,
    value |-> ("GROSSSALARY" :> Num(Len(salary))) @@ data ]

\* calculatePayslip: it throws when the employee is not found, and else
\* returns the form's properties with the derived ones set over them.
calculatePayslip(emps, data) ==
  LET employee == getEmployeeByName(emps, data["EMPLOYEE NAME"].s) IN
  IF employee = Null THEN [threw |-> TRUE] ELSE
  LET hourlyRate == Num(employee["HOURLY RATE"])
      hours == parseFloatOr0(data, "HOURS")
      minutes == parseFloatOr0(data, "MINUTES")
      overtimeHours == parseFloatOr0(data, "OVERTIMEHOURS")
      overtimeMinutes == parseFloatOr0(data, "OVERTIMEMINUTES")
      leavePay == parseFloatOr0(data, "LEAVE PAY")
      bonusPay == parseFloatOr0(data, "BONUS PAY")
      otherIncome == parseFloatOr0(data, "OTHERINCOME")
      otherDeductions == parseFloatOr0(data, "OTHER DEDUCTIONS")
      loanDeduction == parseFloatOr0(data, "LoanDeductionThisWeek")
      newLoan == parseFloatOr0(data, "NewLoanThisWeek")
      standardTime ==
        Plus(Times(hours, hourlyRate),
             Times(Times(hourlyRate, Rat(1, 60)), minutes))
      overtime ==
        Plus(Times(Times(overtimeHours, hourlyRate), Rat(3, 2)),
             Times(Times(Times(hourlyRate, Rat(1, 60)), overtimeMinutes),
                   Rat(3, 2)))
      grossSalary ==
        Plus(Plus(Plus(Plus(standardTime, overtime), leavePay), bonusPay),
             otherIncome)
      uif == IF employee["EMPLOYMENT STATUS"] = "Permanent"
             THEN Times(grossSalary, Rat(1, 100)) ELSE Num(0)
      totalDeductions == Plus(Plus(uif, otherDeductions), loanDeduction)
      netSalary == Minus(grossSalary, totalDeductions)
      paidToAccount == Plus(Minus(netSalary, loanDeduction), newLoan)
  IN [ threw |-> FALSE,
       value |->
         ("HOURLYRATE" :> hourlyRate) @@ ("STANDARDTIME" :> standardTime)
           @@ ("OVERTIME" :> overtime) @@ ("GROSSSALARY" :> grossSalary)
           @@ ("UIF" :> uif) @@ ("TOTALDEDUCTIONS" :> totalDeductions)
           @@ ("NETTSALARY" :> netSalary)
           @@ ("PaidToAccount" :> paidToAccount) @@ data ]

\* The header row of the salary sheet.  RECORDNUMBER heads column 1, the
\* column createPayslip and onChange read the record number from.
SalaryHeaders ==
  { "RECORDNUMBER", "TIMESTAMP", "USER", "EMPLOYEE NAME", "WEEKENDING",
    "HOURS", "MINUTES", "OVERTIMEHOURS", "OVERTIMEMINUTES", "HOURLYRATE",
    "STANDARDTIME", "OVERTIME", "GROSSSALARY", "UIF", "OTHER DEDUCTIONS",
    "LoanDeductionThisWeek", "NewLoanThisWeek", "TOTALDEDUCTIONS",
    "NETTSALARY", "PaidToAccount" }

\* The cell in column 1 of the header row.
SalaryHeaderCell == Str("RECORDNUMBER")

RecordNumberFloor == 7915

getCurrentUser == Str("clerk@example.com")

\* sheet.getRange(sheet.getLastRow(), 1).getValue(): on a sheet without
\* payslips the last row is the header row.
lastRowFirstCell(sal) ==
  IF Len(sal) = 0 THEN SalaryHeaderCell ELSE sal[Len(sal)].RECORDNUMBER

\* calculatedData[header] || data[header] || null, as the stored cell
newPayslipCell(calculatedData, data, header) ==
  IF ~Falsy(calculatedData, header) THEN calculatedData[header]
  ELSE IF ~Falsy(data, header) THEN data[header]
  ELSE Str(EmptyCell)

\* createPayslip: the sheet it leaves and the object it returns.
createPayslip(emps, sal, timestamp, data) ==
  LET validation == validatePayslip(data) IN
  IF ~validation.isValid
  THEN [salary |-> sal,
        result |-> [success |-> FALSE, errors |-> validation.errors]]
  ELSE
  LET calculated == calculatePayslip(emps, data) IN
  IF calculated.threw
  THEN [salary |-> sal,
        result |-> [success |-> FALSE,
                    message |-> "An error occurred while creating the payslip."]]
  ELSE
  LET calculatedData == calculated.value
      lastRecordNumber ==
        IF Truthy(lastRowFirstCell(sal)) THEN lastRowFirstCell(sal)
        ELSE Num(RecordNumberFloor)
      newRow ==
        [ header \in SalaryHeaders |->
            CASE header = "RECORDNUMBER" -> PlusOne(lastRecordNumber)
              [] header = "TIMESTAMP" -> Date(timestamp)
              [] header = "USER" -> getCurrentUser
              [] OTHER -> newPayslipCell(calculatedData, data, header) ]
  IN [salary |-> Append(sal, newRow),
      result |-> [success |-> TRUE,
                  message |-> "Payslip created successfully.",
                  recordNumber |-> newRow.RECORDNUMBER]]

\* syncLoanForPayslip: its body is empty, the ledger stays as it is.
syncLoanForPayslip(ls, recordNumber) == ls

\* The payslip form.
PayslipData(name, weekEnding, hours, overtimeHours, loanDeduction, newLoan) ==
  ("EMPLOYEE NAME" :> Str(name)) @@ ("WEEKENDING" :> Date(weekEnding))
    @@ ("HOURS" :> Num(hours)) @@ ("MINUTES" :> Num(30))
    @@ ("OVERTIMEHOURS" :> Num(overtimeHours))
    @@ ("OVERTIMEMINUTES" :> Num(20))
    @@ ("LoanDeductionThisWeek" :> Num(loanDeduction))
    @@ ("NewLoanThisWeek" :> Num(newLoan))

\* The optional amounts of the payslip form.
ExtraPay ==
  ("LEAVE PAY" :> Num(100)) @@ ("BONUS PAY" :> Num(50))
    @@ ("OTHERINCOME" :> Num(25)) @@ ("OTHER DEDUCTIONS" :> Num(10))

\* The form with every time given, and the optional amounts when `extra`.
PayslipDataOf(name, hours, minutes, overtimeHours, overtimeMinutes, loanDeduction, newLoan, extra) ==
  LET form == ("EMPLOYEE NAME" :> Str(name)) @@ ("WEEKENDING" :> Date(2))
                @@ ("HOURS" :> Num(hours)) @@ ("MINUTES" :> Num(minutes))
                @@ ("OVERTIMEHOURS" :> Num(overtimeHours))
                @@ ("OVERTIMEMINUTES" :> Num(overtimeMinutes))
                @@ ("LoanDeductionThisWeek" :> Num(loanDeduction))
                @@ ("NewLoanThisWeek" :> Num(newLoan))
  IN IF extra THEN form @@ ExtraPay ELSE form

WeekEndings == {2}

\* Payslips createPayslip accepts, with and without a loan deduction and a
\* new loan.
ValidPayslipInputs ==
  { PayslipData(name, weekEnding, 40, 2, loanDeduction, newLoan) :
      name \in Names, weekEnding \in WeekEndings,
      loanDeduction \in {0, 1}, newLoan \in {0, 2} }

\* Payslips it refuses: no name, no week ending, negative hours, more than
\* 168 hours, and a name of no employee.
RejectedPayslipInputs ==
  { ("WEEKENDING" :> Date(2)) @@ ("HOURS" :> Num(40)),
    ("EMPLOYEE NAME" :> Str("Ann")) @@ ("HOURS" :> Num(40)),
    PayslipData("Ann", 2, -1, 0, 0, 0),
    PayslipData("Bob", 2, 100, 70, 1, 0),
    PayslipData("Zed", 2, 40, 0, 1, 2) }

\* createPayslip(data)
CreatePayslip ==
  \E data \in ValidPayslipInputs \cup RejectedPayslipInputs :
    LET out == createPayslip(employees, salary, now, data) IN
    /\ Len(salary) < MaxPayslips
    /\ salary' = out.salary
    /\ now' = IF Len(out.salary) > Len(salary) THEN now + 1 ELSE now
    /\ last' = [op |-> "createPayslip", data |-> data, result |-> out.result]
    /\ UNCHANGED <<employees, loans, procs, pending, returned>>

\* onChange(e), the installed trigger, for an edit of a row of the salary
\* sheet (editedRow 1 is the header row): it reads column 1 of the edited
\* row and calls syncLoanForPayslip.
OnChange ==
  \E editedRow \in 1..(Len(salary) + 1) :
    LET recordNumber ==
          IF editedRow = 1 THEN SalaryHeaderCell
          ELSE salary[editedRow - 1].RECORDNUMBER
    IN /\ last.op = "createPayslip"
       /\ loans' = syncLoanForPayslip(loans, recordNumber)
       /\ last' = [op |-> "syncLoanForPayslip", data |-> recordNumber]
       /\ UNCHANGED <<employees, salary, now, procs, pending, returned>>

PayrollNext ==
  \/ CreatePayslip
  \/ OnChange

PayrollSpec == Init /\ [][PayrollNext]_vars

-----------------------------------------------------------------------------
(* The ledger's chronology and balance invariant, stated on the stored    *)
(* rows without the code's sort                                            *)

RowsOf(ls, employeeId) == {i \in 1..Len(ls) : ls[i]["Employee ID"] = employeeId}

\* Row i precedes row j: by TransactionDate, then Timestamp; rows equal in
\* both stand in the order they were recorded.
Earlier(ls, i, j) ==
  \/ ls[i].TransactionDate < ls[j].TransactionDate
  \/ /\ ls[i].TransactionDate = ls[j].TransactionDate
     /\ \/ ls[i].Timestamp < ls[j].Timestamp
        \/ ls[i].Timestamp = ls[j].Timestamp /\ i < j

Latest(ls, rows) == CHOOSE i \in rows : \A j \in rows \ {i} : Earlier(ls, j, i)

BalanceInvariant(ls, employeeId) ==
  \A i \in RowsOf(ls, employeeId) :
    LET before == {j \in RowsOf(ls, employeeId) \ {i} : Earlier(ls, j, i)} IN
    /\ ls[i].BalanceAfter = ls[i].BalanceBefore + ls[i].LoanAmount
    /\ ls[i].BalanceBefore =
         IF before = {} THEN 0 ELSE ls[Latest(ls, before)].BalanceAfter

\* Everything of a row but its two balances.
Fixed(row) == [row EXCEPT !.BalanceBefore = 0, !.BalanceAfter = 0]

IdOf(emps, name) == getEmployeeByName(emps, name).id

-----------------------------------------------------------------------------
(* Claims *)

\* C1: after any sequence of completed addLoanTransaction calls, in any
\* insertion order and for any mix of employees, every employee's rows in
\* (TransactionDate, Timestamp) order satisfy BalanceBefore[0] = 0,
\* BalanceAfter[i] = BalanceBefore[i] + LoanAmount[i] and
\* BalanceBefore[i+1] = BalanceAfter[i].
C1_BalanceInvariant ==
  \A employeeId \in EmployeeIds(employees) : BalanceInvariant(loans, employeeId)

\* An employee has a transaction recorded after, and dated before, another
\* of theirs, and the other employee has transactions too.
C1_Witness ==
  /\ last.op = "addLoanTransaction" /\ last.result.success
  /\ \E i, j \in 1..Len(loans) :
       /\ i < j
       /\ loans[i]["Employee ID"] = loans[j]["Employee ID"]
       /\ loans[j].TransactionDate < loans[i].TransactionDate
       /\ \E k \in 1..Len(loans) : loans[k]["Employee ID"] # loans[i]["Employee ID"]

\* C3: recalculateLoanBalances is idempotent: in every reachable store
\* state and for every employee, running it twice leaves the same stored
\* rows as running it once.
C3_RecalculateIdempotent ==
  \A employeeId \in EmployeeIds(employees) :
    recalculateLoanBalances(recalculateLoanBalances(loans, employeeId),
                            employeeId)
      = recalculateLoanBalances(loans, employeeId)

\* A store whose balances a recalculation changes.
C3_Witness ==
  \E employeeId \in EmployeeIds(employees) :
    /\ Cardinality(RowsOf(loans, employeeId)) >= 2
    /\ recalculateLoanBalances(loans, employeeId) # loans

\* C4: when addLoanTransaction records a transaction dated before stored
\* transactions of the same employee, every transaction dated later has
\* both balances shifted by the new signed amount, every transaction dated
\* earlier keeps its balances, and the new transaction's BalanceBefore is
\* the BalanceAfter of its chronological predecessor (0 without one).
C4_OutOfOrderInsert ==
  [][ ( /\ Len(loans') = Len(loans) + 1
        /\ last'.op = "addLoanTransaction"
        /\ last'.result.success ) =>
      LET n == Len(loans')
          new == loans'[n]
          old == RowsOf(loans, new["Employee ID"])
          amount == IF last'.data.LoanType = "Repayment"
                    THEN -last'.data.LoanAmount ELSE last'.data.LoanAmount
          before == {i \in old : Earlier(loans', i, n)}
      IN (\E i \in old : loans[i].TransactionDate > new.TransactionDate) =>
         /\ new.LoanAmount = amount
         /\ \A i \in old :
              loans[i].TransactionDate > new.TransactionDate =>
                /\ loans'[i].BalanceBefore = loans[i].BalanceBefore + amount
                /\ loans'[i].BalanceAfter = loans[i].BalanceAfter + amount
         /\ \A i \in old :
              loans[i].TransactionDate < new.TransactionDate =>
                /\ loans'[i].BalanceBefore = loans[i].BalanceBefore
                /\ loans'[i].BalanceAfter = loans[i].BalanceAfter
         /\ new.BalanceBefore =
              IF before = {} THEN 0
              ELSE loans'[Latest(loans', before)].BalanceAfter
    ]_vars

\* The transaction recorded last is dated between two earlier recorded ones
\* of the same employee.
C4_Witness ==
  /\ last.op = "addLoanTransaction" /\ last.result.success
  /\ Len(loans) >= 3
  /\ LET new == loans[Len(loans)] IN
     \E i, j \in 1..(Len(loans) - 1) :
       /\ loans[i]["Employee ID"] = new["Employee ID"]
       /\ loans[j]["Employee ID"] = new["Employee ID"]
       /\ loans[i].TransactionDate < new.TransactionDate
       /\ new.TransactionDate < loans[j].TransactionDate

\* C5: if the recalculation that follows the append fails, before its first
\* write or part-way, the call reports failure and the appended transaction
\* stays in the store; and a later recalculateLoanBalances for the employee
\* that runs to completion restores the balance invariant.
C5_FailedRecalculation ==
  [][ /\ ( last'.op = "addLoanTransaction" /\ last'.fault = "after"
           /\ loans' # loans ) =>
         /\ ~last'.result.success
         /\ Len(loans') = Len(loans) + 1
         /\ \A i \in 1..Len(loans) : Fixed(loans'[i]) = Fixed(loans[i])
         /\ LET new == loans'[Len(loans')] IN
            /\ new["Employee ID"] = IdOf(employees, last'.data["Employee Name"])
            /\ new.TransactionDate = last'.data.TransactionDate
            /\ Abs(new.LoanAmount) = last'.data.LoanAmount
      /\ ( last'.op = "recalculateLoanBalances" /\ last'.result.success ) =>
         BalanceInvariant(loans', last'.data)
    ]_vars

\* A call whose second recalculation failed has left its employee's
\* balances inconsistent.
C5_Witness ==
  /\ last.op = "addLoanTransaction" /\ last.fault = "after"
  /\ ~BalanceInvariant(loans, IdOf(employees, last.data["Employee Name"]))

\* C7: getCurrentLoanBalance(employee) is the BalanceAfter of the
\* employee's chronologically last transaction (by TransactionDate, then
\* Timestamp), or 0 without transactions; never that of a transaction that
\* was merely recorded last.
C7_CurrentBalance ==
  \A employeeId \in EmployeeIds(employees) :
    getCurrentLoanBalance(loans, employeeId) =
      IF RowsOf(loans, employeeId) = {} THEN 0
      ELSE loans[Latest(loans, RowsOf(loans, employeeId))].BalanceAfter

\* The transaction recorded last is not the chronologically last one, and
\* their balances differ.
C7_Witness ==
  \E employeeId \in EmployeeIds(employees) :
    LET rows == RowsOf(loans, employeeId) IN
    /\ rows # {}
    /\ LET recordedLast == CHOOSE i \in rows : \A j \in rows : j <= i IN
       /\ Latest(loans, rows) # recordedLast
       /\ loans[Latest(loans, rows)].BalanceAfter
            # loans[recordedLast].BalanceAfter

\* The rejected inputs, stated on the input: no name, an amount that is
\* missing or not strictly positive, no date, or a name of no employee.
Rejectable(emps, data) ==
  \/ ~Has(data, "Employee Name") \/ data["Employee Name"] = ""
  \/ ~Has(data, "LoanAmount") \/ data.LoanAmount <= 0
  \/ ~Has(data, "TransactionDate")
  \/ \A i \in 1..Len(emps) : emps[i]["EMPLOYEE NAME"] # data["Employee Name"]

\* C8: a rejected addLoanTransaction (amount missing or not strictly
\* positive, date absent, employee reference absent or not resolving)
\* returns a failure and leaves the loan rows as they were: no row
\* appended, no balance rewritten.
C8_RejectedLeavesStore ==
  [][ ( last'.op = "addLoanTransaction"
        /\ Rejectable(employees, last'.data) ) =>
      ( loans' = loans /\ ~last'.result.success ) ]_vars

\* A rejected call on a store whose balances a recalculation would rewrite.
C8_Witness ==
  /\ last.op = "addLoanTransaction"
  /\ Rejectable(employees, last.data)
  /\ ~last.result.success
  /\ \E employeeId \in EmployeeIds(employees) :
       ~BalanceInvariant(loans, employeeId)

\* C9: no loan row is ever removed and no row's LoanID, Employee ID,
\* LoanAmount, TransactionDate or Timestamp changes;
\* recalculateLoanBalances(e) writes only BalanceBefore and BalanceAfter
\* cells, and only in rows whose Employee ID is e.
C9_RowsImmutable ==
  [][ /\ Len(loans') >= Len(loans)
      /\ \A i \in 1..Len(loans) : Fixed(loans'[i]) = Fixed(loans[i])
      /\ last'.op = "recalculateLoanBalances" =>
           /\ Len(loans') = Len(loans)
           /\ \A i \in 1..Len(loans) :
                loans[i]["Employee ID"] # last'.data => loans'[i] = loans[i]
    ]_vars

\* A completed recalculation for an employee with transactions, beside
\* another employee whose balances are (still) inconsistent.
C9_Witness ==
  /\ last.op = "recalculateLoanBalances" /\ last.result.success
  /\ RowsOf(loans, last.data) # {}
  /\ \E employeeId \in EmployeeIds(employees) :
       employeeId # last.data /\ ~BalanceInvariant(loans, employeeId)

\* C2: two addLoanTransaction calls for the same employee that run
\* concurrently are serialized: for every interleaving of their store reads
\* and writes, once both have returned the employee's stored balances
\* satisfy the balance invariant.
C2_ConcurrentAddsSerialized ==
  ( /\ \A p \in Procs : procs[p].pc = "done" /\ procs[p].result.success
    /\ procs[1].employeeId = procs[2].employeeId )
  => BalanceInvariant(loans, procs[1].employeeId)

\* The amount of a payslip form property, as the integer the ledger holds.
FormAmount(data, key) ==
  IF Has(data, key) /\ data[key].t = "number" /\ data[key].den = 1
  THEN data[key].num ELSE 0

HasTransaction(ls, employeeId, type, amount, date) ==
  \E i \in 1..Len(ls) :
    /\ ls[i]["Employee ID"] = employeeId
    /\ ls[i].LoanType = type
    /\ ls[i].LoanAmount = amount
    /\ ls[i].TransactionDate = date

\* C6: after createPayslip succeeds with LoanDeductionThisWeek > 0 the
\* employee's ledger contains a Repayment of that amount dated at
\* WEEKENDING, with NewLoanThisWeek > 0 it contains a Disbursement of that
\* amount dated at WEEKENDING, and when both are 0 the ledger is unchanged.
C6_PayslipLedgerCoupling ==
  [][ ( last'.op = "createPayslip" /\ last'.result.success ) =>
      LET data == last'.data
          employeeId == IdOf(employees, data["EMPLOYEE NAME"].s)
          loanDeduction == FormAmount(data, "LoanDeductionThisWeek")
          newLoan == FormAmount(data, "NewLoanThisWeek")
      IN /\ loanDeduction > 0 =>
              HasTransaction(loans', employeeId, "Repayment",
                             -loanDeduction, data.WEEKENDING.d)
         /\ newLoan > 0 =>
              HasTransaction(loans', employeeId, "Disbursement",
                             newLoan, data.WEEKENDING.d)
         /\ (loanDeduction = 0 /\ newLoan = 0) => loans' = loans
    ]_vars

IsInteger(v) == v.t = "number" /\ v.den = 1

\* C10: payslips created one after another get integer RECORDNUMBER
\* values that are strictly increasing, pairwise distinct and without gaps,
\* each max(existing) + 1, the first one, on a collection without
\* payslips, counted from the floor 7915.
C10_RecordNumbers ==
  \A i \in 1..Len(salary) :
    /\ IsInteger(salary[i].RECORDNUMBER)
    /\ i = 1 => salary[i].RECORDNUMBER.num
                  \in {RecordNumberFloor, RecordNumberFloor + 1}
    /\ i > 1 => /\ IsInteger(salary[i - 1].RECORDNUMBER)
                /\ salary[i].RECORDNUMBER.num
                     = salary[i - 1].RECORDNUMBER.num + 1

-----------------------------------------------------------------------------
(* calculatePayslip called on its own (it is part of the script's API)     *)

\* Forms over integer amounts: with and without the optional amounts, with
\* zero and non-zero times, for a permanent and a temporary employee and
\* for a name of no employee.
CalcInputs ==
  { PayslipDataOf(name, hours, minutes, overtimeHours, overtimeMinutes,
                  loanDeduction, newLoan, extra) :
      name \in Names \cup {"Zed"}, hours \in {0, 40}, minutes \in {0, 7},
      overtimeHours \in {0, 3}, overtimeMinutes \in {0, 25},
      loanDeduction \in {0, 1}, newLoan \in {0, 2}, extra \in BOOLEAN }

\* calculatePayslip(data)
CalculatePayslip ==
  \E data \in CalcInputs :
    /\ last' = [op |-> "calculatePayslip", data |-> data,
                result |-> calculatePayslip(employees, data)]
    /\ UNCHANGED <<employees, loans, salary, now, procs, pending, returned>>

CalcNext == CalculatePayslip

CalcSpec == Init /\ [][CalcNext]_vars

\* The amount of a form property as an integer, 0 when it is absent.
Amount(data, key) == IF Has(data, key) THEN data[key].num ELSE 0

\* v is the number n / d: its denominator divides d and its numerator,
\* brought to the denominator d, is n.
IsFraction(v, n, d) ==
  /\ v.t = "number"
  /\ v.den > 0 /\ d % v.den = 0
  /\ v.num * (d \div v.den) = n

\* 120 * GROSSSALARY, from the form and the employee's rate, in integers.
Gross120(data, rate) ==
  2 * (60 * Amount(data, "HOURS") * rate + rate * Amount(data, "MINUTES"))
  + 3 * (60 * Amount(data, "OVERTIMEHOURS") * rate
         + rate * Amount(data, "OVERTIMEMINUTES"))
  + 120 * (Amount(data, "LEAVE PAY") + Amount(data, "BONUS PAY")
           + Amount(data, "OTHERINCOME"))

\* 12000 * UIF
Uif12000(data, employee) ==
  IF employee["EMPLOYMENT STATUS"] = "Permanent"
  THEN Gross120(data, employee["HOURLY RATE"]) ELSE 0

\* 12000 * TOTALDEDUCTIONS
Deductions12000(data, employee) ==
  Uif12000(data, employee)
  + 12000 * (Amount(data, "OTHER DEDUCTIONS")
             + Amount(data, "LoanDeductionThisWeek"))

\* 12000 * NETTSALARY
Nett12000(data, employee) ==
  100 * Gross120(data, employee["HOURLY RATE"]) - Deductions12000(data, employee)

\* The formula chain holds of the object `result` for the form `data`.
FormulaChain(data, employee, result) ==
  LET rate == employee["HOURLY RATE"] IN
  /\ IsFraction(result.HOURLYRATE, rate, 1)
  /\ IsFraction(result.STANDARDTIME,
                60 * Amount(data, "HOURS") * rate
                  + rate * Amount(data, "MINUTES"), 60)
  /\ IsFraction(result.OVERTIME,
                3 * (60 * Amount(data, "OVERTIMEHOURS") * rate
                     + rate * Amount(data, "OVERTIMEMINUTES")), 120)
  /\ IsFraction(result.GROSSSALARY, Gross120(data, rate), 120)
  /\ IsFraction(result.UIF, Uif12000(data, employee), 12000)
  /\ IsFraction(result.TOTALDEDUCTIONS, Deductions12000(data, employee), 12000)
  /\ IsFraction(result.NETTSALARY, Nett12000(data, employee), 12000)
  /\ IsFraction(result.PaidToAccount,
                Nett12000(data, employee)
                  - 12000 * Amount(data, "LoanDeductionThisWeek")
                  + 12000 * Amount(data, "NewLoanThisWeek"), 12000)

\* C11: for every form over integer amounts and every employee found,
\* calculatePayslip returns STANDARDTIME = hours*rate + (rate/60)*minutes,
\* OVERTIME = 1.5*(overtimeHours*rate + (rate/60)*overtimeMinutes),
\* GROSSSALARY = STANDARDTIME + OVERTIME + leavePay + bonusPay + otherIncome,
\* UIF = 1% of GROSSSALARY for a Permanent employee and 0 otherwise,
\* TOTALDEDUCTIONS = UIF + otherDeductions + loanDeduction, NETTSALARY =
\* GROSSSALARY - TOTALDEDUCTIONS and PaidToAccount = NETTSALARY -
\* loanDeduction + newLoan.
C11_FormulaChain ==
  ( last.op = "calculatePayslip" /\ ~last.result.threw ) =>
    FormulaChain(last.data,
                 getEmployeeByName(employees, last.data["EMPLOYEE NAME"].s),
                 last.result.value)

\* A payslip of a permanent employee with every amount set and a UIF that
\* is not a whole number.
C11_Witness ==
  /\ last.op = "calculatePayslip" /\ ~last.result.threw
  /\ \A key \in DOMAIN ExtraPay : Has(last.data, key)
  /\ Amount(last.data, "MINUTES") > 0
  /\ Amount(last.data, "OVERTIMEMINUTES") > 0
  /\ Amount(last.data, "LoanDeductionThisWeek") > 0
  /\ Amount(last.data, "NewLoanThisWeek") > 0
  /\ last.result.value.UIF.num > 0
  /\ last.result.value.UIF.den > 1

-----------------------------------------------------------------------------
(* createPayslip on forms at the hours boundary and on forms that carry    *)
(* values under the names of the derived fields                            *)

MaxFormPayslips == 1   \* payslip rows this specification appends

DerivedFields ==
  { "STANDARDTIME", "OVERTIME", "GROSSSALARY", "UIF", "TOTALDEDUCTIONS",
    "NETTSALARY", "PaidToAccount" }

\* What a caller puts under the derived names.
SuppliedDerived == [field \in DerivedFields |-> Num(999)]

\* Hours and overtime hours: all zero, summing to exactly 168, to 169 and
\* to 170, and negative.
HoursPairs ==
  { <<0, 0>>, <<100, 68>>, <<0, 168>>, <<100, 69>>, <<100, 70>>, <<169, 0>>,
    <<-1, 0>>, <<0, -1>>, <<-1, 170>>, <<-2, -3>> }

\* The forms, and each form that passes validation once more with values
\* under the derived names.
FormInputs ==
  LET forms == { PayslipDataOf(name, pair[1], minutes, pair[2], 0,
                               loanDeduction, 0, FALSE) :
                   name \in Names, pair \in HoursPairs, minutes \in {0, 30},
                   loanDeduction \in {0, 1} }
  IN forms \cup { SuppliedDerived @@ form :
                    form \in {f \in forms : validatePayslip(f).isValid} }

\* createPayslip(data)
CreatePayslipFromForm ==
  \E data \in FormInputs :
    LET out == createPayslip(employees, salary, now, data) IN
    /\ Len(salary) < MaxFormPayslips
    /\ salary' = out.salary
    /\ now' = IF Len(out.salary) > Len(salary) THEN now + 1 ELSE now
    /\ last' = [op |-> "createPayslip", data |-> data, result |-> out.result]
    /\ UNCHANGED <<employees, loans, procs, pending, returned>>

FormNext == CreatePayslipFromForm

FormSpec == Init /\ [][FormNext]_vars

\* The stored cell holds the number v; an empty cell counts as 0.
CellHolds(cell, v) == cell = v \/ (cell = Str(EmptyCell) /\ v.num = 0)

\* C12: for every payslip row createPayslip appends, the stored
\* STANDARDTIME, OVERTIME, GROSSSALARY, UIF, TOTALDEDUCTIONS, NETTSALARY
\* and PaidToAccount are the values calculatePayslip computes from the raw
\* inputs, whatever the caller supplied under those names, also when a
\* computed value is 0.
C12_DerivedNotSettable ==
  ( last.op = "createPayslip" /\ last.result.success ) =>
    \A field \in DerivedFields :
      CellHolds(salary[Len(salary)][field],
                calculatePayslip(employees, last.data).value[field])

\* The number a cell holds, 0 for an empty cell.
CellAmount(cell) == IF cell.t = "number" THEN cell.num ELSE 0

HoursMessages ==
  { "Hours cannot be negative",
    "Total hours exceed maximum possible (168 hours/week)" }

Messages(errors) == {errors[i] : i \in 1..Len(errors)}

\* C13: validatePayslip reports invalid whenever HOURS + OVERTIMEHOURS >
\* 168 or either is negative, and reports no hours violation when both are
\* non-negative and the sum is exactly 168; so createPayslip never appends
\* a payslip row with hours plus overtime hours above 168.
C13_HoursBoundary ==
  /\ \A i \in 1..Len(salary) :
       CellAmount(salary[i].HOURS) + CellAmount(salary[i].OVERTIMEHOURS) <= 168
  /\ last.op = "createPayslip" =>
       LET hours == Amount(last.data, "HOURS")
           overtimeHours == Amount(last.data, "OVERTIMEHOURS")
           validation == validatePayslip(last.data)
       IN /\ (hours + overtimeHours > 168 \/ hours < 0 \/ overtimeHours < 0)
               => /\ ~validation.isValid
                  /\ ~last.result.success
                  /\ Messages(last.result.errors) \cap HoursMessages # {}
          /\ (hours >= 0 /\ overtimeHours >= 0 /\ hours + overtimeHours = 168)
               => /\ Messages(validation.errors) \cap HoursMessages = {}
                  /\ last.result.success

\* A payslip of exactly 168 hours, 68 of them overtime, was stored.
C13_Witness ==
  /\ last.op = "createPayslip" /\ last.result.success
  /\ Len(salary) > 0
  /\ CellAmount(salary[Len(salary)].HOURS) = 100
  /\ CellAmount(salary[Len(salary)].OVERTIMEHOURS) = 68

-----------------------------------------------------------------------------
(* Timesheets.js: staging of imported timesheet records *)

MaxPending == 2   \* timesheet rows the model stages

validateTimesheet(data) ==
  LET hours == parseFloatOr0(data, "HOURS")
      overtimeHours == parseFloatOr0(data, "OVERTIMEHOURS")
      e1 == IF Falsy(data, "EMPLOYEE NAME")
            THEN <<"Employee name is required">> ELSE <<>>
      e2 == IF Falsy(data, "WEEKENDING")
            THEN <<"Week ending date is required">> ELSE <<>>
      e3 == IF Less(hours, Num(0)) \/ Less(overtimeHours, Num(0))
            THEN <<"Hours cannot be negative">> ELSE <<>>
      errors == e1 \o e2 \o e3
  IN [isValid |-> Len(errors) = 0, errors |-> errors]

\* The header row of the PendingTimesheets sheet.
PendingHeaders ==
  { "RecordID", "Status", "ImportDate", "EMPLOYEE NAME", "WEEKENDING",
    "HOURS", "MINUTES", "OVERTIMEHOURS", "OVERTIMEMINUTES" }

\* headers.map(...) of stagePendingTimesheets
newPendingRow(record, uuid, timestamp) ==
  [ header \in PendingHeaders |->
      CASE header = "Status" -> Str("Pending")
        [] header = "ImportDate" -> Date(timestamp)
        [] header = "RecordID" -> Str(uuid)
        [] OTHER -> IF Falsy(record, header) THEN Str(EmptyCell)
                    ELSE record[header] ]

\* The loop of stagePendingTimesheets: the sheet after the records from
\* the i-th on, invalid ones skipped.
RECURSIVE stageRecords(_, _, _, _, _)
stageRecords(sheet, data, randoms, timestamp, i) ==
  IF i > Len(data) THEN sheet
  ELSE IF ~validateTimesheet(data[i]).isValid
       THEN stageRecords(sheet, data, randoms, timestamp, i + 1)
       ELSE stageRecords(
              Append(sheet, newPendingRow(data[i], generateUUID(randoms[i]),
                                          timestamp)),
              data, randoms, timestamp, i + 1)

\* stagePendingTimesheets: the sheet it leaves and the object it returns.
stagePendingTimesheets(sheet, data, randoms, timestamp) ==
  LET staged == stageRecords(sheet, data, randoms, timestamp, 1)
      addedCount == Len(staged) - Len(sheet)
  IN [pending |-> staged,
      result |-> [success |-> TRUE,
                  message |-> ToString(addedCount)
                    \o " timesheet record(s) staged for approval"]]

\* A timesheet record.
TimesheetRecord(name, hours, overtimeHours) ==
  ("EMPLOYEE NAME" :> Str(name)) @@ ("WEEKENDING" :> Date(2))
    @@ ("HOURS" :> Num(hours)) @@ ("MINUTES" :> Num(30))
    @@ ("OVERTIMEHOURS" :> Num(overtimeHours))
    @@ ("OVERTIMEMINUTES" :> Num(0))

\* Records within the weekly cap, at it and above it, with negative hours,
\* and without a name.
TimesheetRecords ==
  { TimesheetRecord(name, pair[1], pair[2]) :
      name \in Names,
      pair \in {<<40, 2>>, <<100, 68>>, <<100, 70>>, <<-1, 0>>} }
  \cup { ("WEEKENDING" :> Date(2)) @@ ("HOURS" :> Num(40)) }

\* The imports: one record or two.
TimesheetBatches ==
  { <<record>> : record \in TimesheetRecords }
  \cup { <<r1, r2>> : r1 \in TimesheetRecords, r2 \in TimesheetRecords }

\* stagePendingTimesheets(data)
StagePendingTimesheets ==
  \E data \in TimesheetBatches :
    \E randoms \in [1..Len(data) -> RandomDraws] :
      LET out == stagePendingTimesheets(pending, data, randoms, now) IN
      /\ Len(out.pending) <= MaxPending
      /\ pending' = out.pending
      /\ now' = IF Len(out.pending) > Len(pending) THEN now + 1 ELSE now
      /\ last' = [op |-> "stagePendingTimesheets", data |-> data,
                  result |-> out.result]
      /\ UNCHANGED <<employees, loans, salary, procs, returned>>

TimesheetNext == StagePendingTimesheets

TimesheetSpec == Init /\ [][TimesheetNext]_vars

\* C14: validateTimesheet reports invalid when HOURS + OVERTIMEHOURS > 168,
\* so stagePendingTimesheets never stages a record whose hours and overtime
\* hours sum to more than 168.
C14_TimesheetCap ==
  /\ \A i \in 1..Len(pending) :
       CellAmount(pending[i].HOURS) + CellAmount(pending[i].OVERTIMEHOURS)
         <= 168
  /\ last.op = "stagePendingTimesheets" =>
       \A i \in 1..Len(last.data) :
         Amount(last.data[i], "HOURS") + Amount(last.data[i], "OVERTIMEHOURS")
           > 168 => ~validateTimesheet(last.data[i]).isValid

\* C15: every loan row stored by addLoanTransaction has a non-zero
\* LoanAmount whose sign follows from the kind alone: strictly negative for
\* a Repayment, strictly positive for a Disbursement, whatever sign the
\* caller supplied.
C15_SignConvention ==
  /\ \A i \in 1..Len(loans) :
       /\ loans[i].LoanAmount # 0
       /\ loans[i].LoanType = "Repayment" => loans[i].LoanAmount < 0
       /\ loans[i].LoanType = "Disbursement" => loans[i].LoanAmount > 0
  /\ ( last.op = "addLoanTransaction" /\ Has(last.data, "LoanAmount")
       /\ last.data.LoanAmount <= 0 ) => ~last.result.success

\* A repayment given as a positive amount was stored.
C15_Witness ==
  /\ last.op = "addLoanTransaction" /\ last.result.success
  /\ last.data.LoanType = "Repayment" /\ last.data.LoanAmount > 0
  /\ loans[Len(loans)].LoanType = "Repayment"
  /\ loans[Len(loans)].LoanAmount = -last.data.LoanAmount

\* C16: getLoanHistory(employee) returns exactly that employee's
\* transactions, ascending by TransactionDate and, on equal dates, by
\* Timestamp; recalculateLoanBalances walks them in the same order, so the
\* BalanceBefore of each returned transaction is the BalanceAfter of the
\* one returned before it.
C16_HistoryOrder ==
  \A employeeId \in EmployeeIds(employees) :
    LET history == getLoanHistory(loans, employeeId)
        order == transactions(loans, employeeId)
    IN /\ Len(order) = Cardinality(RowsOf(loans, employeeId))
       /\ {order[k] : k \in 1..Len(order)} = RowsOf(loans, employeeId)
       /\ \A k \in 1..(Len(history) - 1) :
            \/ history[k].TransactionDate < history[k + 1].TransactionDate
            \/ /\ history[k].TransactionDate = history[k + 1].TransactionDate
               /\ history[k].Timestamp <= history[k + 1].Timestamp
       /\ employeeRows(loans, employeeId) = order
       /\ \A k \in 1..(Len(history) - 1) :
            history[k + 1].BalanceBefore = history[k].BalanceAfter

\* An employee's history starts with a transaction recorded after the next
\* one, and the two after it share a date.
C16_Witness ==
  \E employeeId \in EmployeeIds(employees) :
    LET order == transactions(loans, employeeId) IN
    /\ Len(order) >= 3
    /\ order[1] > order[2]
    /\ loans[order[2]].TransactionDate = loans[order[3]].TransactionDate

-----------------------------------------------------------------------------
(* Reports.js: the loan balances report, a reader of the ledger *)

\* getEmployeeById: the first row whose 'ID' cell is the id; a sheet
\* without that column has no such row.
getEmployeeById(emps, id) ==
  LET hits == {i \in 1..Len(emps) : Has(emps[i], "ID") /\ emps[i].ID = id}
  IN IF hits = {} THEN Null
     ELSE emps[CHOOSE i \in hits : \A j \in hits : i <= j]

\* The keys of employeeBalances in the order the loop creates them: each
\* Employee ID at its first row.
reportEmployees(ls) ==
  LET first == SelectSeq([i \in 1..Len(ls) |-> i],
                 LAMBDA i : \A j \in 1..(i - 1) :
                              ls[j]["Employee ID"] # ls[i]["Employee ID"])
  IN [k \in 1..Len(first) |-> ls[first[k]]["Employee ID"]]

\* employeeBalances[empId] after the loop: each row overwrites the entry of
\* its employee, so the row stored last stays.
employeeBalances(ls, empId) ==
  LET rows == {i \in 1..Len(ls) : ls[i]["Employee ID"] = empId}
  IN ls[CHOOSE i \in rows : \A j \in rows : j <= i].BalanceAfter

\* One entry of loanData.
reportEntry(emps, ls, empId) ==
  LET employee == getEmployeeById(emps, empId) IN
  IF employee = Null
  THEN [employeeId |-> empId, employeeName |-> "Unknown",
        balance |-> employeeBalances(ls, empId)]
  ELSE IF Has(employee, "REFNAME")
  THEN [employeeId |-> empId, employeeName |-> employee.REFNAME,
        balance |-> employeeBalances(ls, empId)]
  ELSE [employeeId |-> empId, balance |-> employeeBalances(ls, empId)]

\* loanData.sort by balance descending (stable): the entry goes behind
\* every entry whose balance is not smaller.
RECURSIVE insertEntry(_, _)
insertEntry(sorted, entry) ==
  IF sorted = <<>> THEN <<entry>>
  ELSE IF entry.balance - Head(sorted).balance <= 0
       THEN <<Head(sorted)>> \o insertEntry(Tail(sorted), entry)
       ELSE <<entry>> \o sorted

RECURSIVE sortEntries(_)
sortEntries(entries) ==
  IF entries = <<>> THEN <<>>
  ELSE insertEntry(sortEntries(SubSeq(entries, 1, Len(entries) - 1)),
                   entries[Len(entries)])

RECURSIVE SumBalances(_)
SumBalances(entries) ==
  IF entries = <<>> THEN 0
  ELSE Head(entries).balance + SumBalances(Tail(entries))

\* generateLoanReport(): the employees with a positive balance.
generateLoanReport(emps, ls, timestamp) ==
  LET keys == reportEmployees(ls)
      outstanding == SelectSeq(keys,
                       LAMBDA empId : employeeBalances(ls, empId) > 0)
      loanData == sortEntries([k \in 1..Len(outstanding) |->
                                 reportEntry(emps, ls, outstanding[k])])
  IN [ success |-> TRUE,
       asOfDate |-> timestamp,
       data |-> loanData,
       totals |-> [employeesWithLoans |-> Len(loanData),
                   totalOutstanding |-> SumBalances(loanData)] ]

\* The entries of the report for an employee.
ReportEntries(report, employeeId) ==
  {k \in 1..Len(report.data) : report.data[k].employeeId = employeeId}

\* C17: in every reachable ledger state, also after a backdated insert,
\* the outstanding balance generateLoanReport attributes to an employee is
\* getCurrentLoanBalance for that employee, the BalanceAfter of the
\* chronologically last transaction and not of the row stored last: an
\* employee is listed when that balance is positive, and with that balance.
C17_ReportUsesChronology ==
  LET report == generateLoanReport(employees, loans, now) IN
  \A employeeId \in EmployeeIds(employees) :
    /\ getCurrentLoanBalance(loans, employeeId) > 0
         => ReportEntries(report, employeeId) # {}
    /\ \A k \in ReportEntries(report, employeeId) :
         report.data[k].balance = getCurrentLoanBalance(loans, employeeId)

-----------------------------------------------------------------------------
(* Employees.js: addEmployee and updateEmployee on the employee sheet.     *)
(* Cells and form values carry their type, as in the payroll part.         *)

MaxEmployees == 2   \* employee rows the model appends
MaxClock == 4       \* the clock value after which the model updates no more

\* CONFIG.REQUIRED_EMPLOYEE_FIELDS
RequiredEmployeeFields ==
  << "EMPLOYEE NAME", "SURNAME", "EMPLOYER", "HOURLY RATE", "ID NUMBER",
     "CONTACT NUMBER", "ADDRESS", "EMPLOYMENT STATUS", "ClockInRef" >>

\* The header row of the employee sheet.
EmployeeHeaders ==
  { "ID", "REFNAME", "USER", "TIMESTAMP", "MODIFIED_BY", "LAST_MODIFIED",
    "TERMINATION DATE" }
  \cup {RequiredEmployeeFields[k] : k \in 1..Len(RequiredEmployeeFields)}

\* The strings of the model that are 13 digits.
IdNumbers == {"8001015009087", "9002025009088"}

\* The strings of the model that match /^(?:\+27|0)[6-8][0-9]{8}$/.
ContactNumbers == {"0821234567"}

\* validateSAIdNumber: a non-empty numeral of length 13
validateSAIdNumber(data) ==
  /\ ~Falsy(data, "ID NUMBER")
  /\ data["ID NUMBER"].t = "string"
  /\ data["ID NUMBER"].s \in IdNumbers

validatePhoneNumber(data) ==
  /\ Has(data, "CONTACT NUMBER")
  /\ data["CONTACT NUMBER"].t = "string"
  /\ data["CONTACT NUMBER"].s \in ContactNumbers

\* allEmployees.some(emp => emp[field] === data[field])
someEmployeeHas(emps, data, field) ==
  /\ Has(data, field)
  /\ \E i \in 1..Len(emps) : emps[i][field] = data[field]

validateEmployee(emps, data) ==
  LET missing == SelectSeq(RequiredEmployeeFields,
                           LAMBDA field : Falsy(data, field))
      e1 == [k \in 1..Len(missing) |-> missing[k] \o " is required."]
      e2 == IF /\ Has(data, "HOURLY RATE")
               /\ data["HOURLY RATE"].t = "number"
               /\ data["HOURLY RATE"].num <= 0
            THEN <<"Hourly rate must be greater than 0.">> ELSE <<>>
      e3 == IF ~validateSAIdNumber(data)
            THEN <<"Invalid South African ID number.">> ELSE <<>>
      e4 == IF ~validatePhoneNumber(data)
            THEN <<"Invalid contact number format.">> ELSE <<>>
      e5 == IF someEmployeeHas(emps, data, "ID NUMBER")
            THEN <<"ID Number must be unique.">> ELSE <<>>
      e6 == IF someEmployeeHas(emps, data, "ClockInRef")
            THEN <<"ClockInRef must be unique.">> ELSE <<>>
      errors == e1 \o e2 \o e3 \o e4 \o e5 \o e6
  IN [isValid |-> Len(errors) = 0, errors |-> errors]

\* The text `${value}` of a form property.
TemplateText(data, key) == IF Has(data, key) THEN data[key].s ELSE "undefined"

\* addEmployee: the sheet it leaves and the object it returns.
addEmployee(emps, data, uuid, timestamp) ==
  LET validation == validateEmployee(emps, data) IN
  IF ~validation.isValid
  THEN [employees |-> emps,
        result |-> [success |-> FALSE, errors |-> validation.errors]]
  ELSE
  LET newRow ==
        [ header \in EmployeeHeaders |->
            CASE header = "ID" -> Str(uuid)
              [] header = "REFNAME" ->
                   Str(TemplateText(data, "EMPLOYEE NAME") \o " "
                         \o TemplateText(data, "SURNAME"))
              [] header = "USER" -> getCurrentUser
              [] header = "TIMESTAMP" -> Date(timestamp)
              [] OTHER -> IF Falsy(data, header) THEN Str(EmptyCell)
                          ELSE data[header] ]
  IN [employees |-> Append(emps, newRow),
      result |-> [success |-> TRUE,
                  message |-> "Employee added successfully."]]

\* updateEmployee: the first row with the ID gets the properties of data;
\* nothing is validated.
updateEmployee(emps, id, data, timestamp) ==
  LET hits == {i \in 1..Len(emps) : emps[i].ID = id} IN
  IF hits = {}
  THEN [employees |-> emps,
        result |-> [success |-> FALSE, message |-> "Employee not found."]]
  ELSE
  LET i == CHOOSE h \in hits : \A j \in hits : h <= j
      newRow ==
        [ header \in EmployeeHeaders |->
            CASE header = "MODIFIED_BY" -> getCurrentUser
              [] header = "LAST_MODIFIED" -> Date(timestamp)
              [] OTHER -> IF Has(data, header) THEN data[header]
                          ELSE emps[i][header] ]
  IN [employees |-> [emps EXCEPT ![i] = newRow],
      result |-> [success |-> TRUE,
                  message |-> "Employee updated successfully."]]

\* The employee form.
EmployeeData(name, rate, idNumber, clockInRef) ==
  ("EMPLOYEE NAME" :> Str(name)) @@ ("SURNAME" :> Str("Mokoena"))
    @@ ("EMPLOYER" :> Str("Scorpio Abrasives")) @@ ("HOURLY RATE" :> Num(rate))
    @@ ("ID NUMBER" :> Str(idNumber)) @@ ("CONTACT NUMBER" :> Str("0821234567"))
    @@ ("ADDRESS" :> Str("1 Main Rd")) @@ ("EMPLOYMENT STATUS" :> Str("Permanent"))
    @@ ("ClockInRef" :> Str(clockInRef))

ClockInRefs == {"C1", "C2"}

\* Forms with each ID number and clock-in reference, a form with a rate of
\* 0, one with an ID number that is no 13 digits, and one without a name.
EmployeeInputs ==
  { EmployeeData(name, 120, idNumber, clockInRef) :
      name \in Names, idNumber \in IdNumbers, clockInRef \in ClockInRefs }
  \cup { EmployeeData("Ann", 0, "8001015009087", "C1"),
         EmployeeData("Ann", 120, "123", "C1"),
         [ key \in DOMAIN EmployeeData("Ann", 120, "8001015009087", "C1")
                     \ {"EMPLOYEE NAME"} |->
             EmployeeData("Ann", 120, "8001015009087", "C1")[key] ] }

\* The changes of an update: another ID number, another clock-in reference,
\* or the termination.
EmployeeUpdates ==
  { ("ID NUMBER" :> Str(idNumber)) : idNumber \in IdNumbers }
  \cup { ("ClockInRef" :> Str(clockInRef)) : clockInRef \in ClockInRefs }
  \cup { ("TERMINATION DATE" :> Date(3))
           @@ ("EMPLOYMENT STATUS" :> Str("Terminated")) }

\* Math.random() draws for the IDs of employees.
IdDraws == {0, 1}

\* The employee sheet with its header row and no employee.
EmpInit ==
  /\ employees = <<>>
  /\ loans = <<>>
  /\ salary = <<>>
  /\ now = 1
  /\ last = [op |-> "none"]
  /\ procs = [p \in Procs |-> Idle]
  /\ pending = <<>>
  /\ returned = {}

\* addEmployee(data)
AddEmployee ==
  \E data \in EmployeeInputs, random \in IdDraws :
    LET out == addEmployee(employees, data, generateUUID(random), now) IN
    /\ Len(employees) < MaxEmployees
    /\ employees' = out.employees
    /\ now' = IF Len(out.employees) > Len(employees) THEN now + 1 ELSE now
    /\ last' = [op |-> "addEmployee", data |-> data, result |-> out.result]
    /\ UNCHANGED <<loans, salary, procs, pending, returned>>

\* updateEmployee(id, data)
UpdateEmployee ==
  \E random \in IdDraws \cup {2}, data \in EmployeeUpdates :
    LET out == updateEmployee(employees, Str(generateUUID(random)), data, now)
    IN /\ now < MaxClock
       /\ employees' = out.employees
       /\ now' = IF out.result.success THEN now + 1 ELSE now
       /\ last' = [op |-> "updateEmployee", data |-> data,
                   result |-> out.result]
       /\ UNCHANGED <<loans, salary, procs, pending, returned>>

EmpNext ==
  \/ AddEmployee
  \/ UpdateEmployee

EmpSpec == EmpInit /\ [][EmpNext]_vars

\* C18: after any sequence of addEmployee and updateEmployee calls no two
\* stored employees share an ID NUMBER and no two share a ClockInRef; an
\* addEmployee whose ID NUMBER or ClockInRef is an existing employee's is
\* rejected and appends nothing.
C18_EmployeeUniqueness ==
  \A i, j \in 1..Len(employees) :
    i # j => /\ employees[i]["ID NUMBER"] # employees[j]["ID NUMBER"]
             /\ employees[i]["ClockInRef"] # employees[j]["ClockInRef"]

-----------------------------------------------------------------------------
(* Two executions of addLoanTransaction at once, on a ledger that holds a  *)
(* transaction of each employee                                            *)

\* The ledger after addLoanTransaction for Ann and then for Bob, each a
\* disbursement of 2 on day 2, at times 1 and 2.
SeededLoans(emps) ==
  LET first == addLoanTransaction(emps, <<>>, 1,
                 LoanData("Ann", 2, 2, "Disbursement"), generateUUID(0),
                 NoFault)
  IN addLoanTransaction(emps, first.loans, 2,
       LoanData("Bob", 2, 2, "Disbursement"), generateUUID(0), NoFault).loans

SeededInit ==
  /\ employees = << EmployeeRow("Ann", "E1", 120, "Permanent"),
                    EmployeeRow("Bob", "E2", 60, "Temporary") >>
  /\ loans = SeededLoans(employees)
  /\ salary = <<>>
  /\ now = 3
  /\ last = [op |-> "none"]
  /\ procs = [p \in Procs |-> Idle]
  /\ pending = <<>>
  /\ returned = {}

IndepSpec == SeededInit /\ [][ConcNext]_vars

\* The rows of an employee, in storage order.
LedgerOf(ls, employeeId) ==
  SelectSeq(ls, LAMBDA row : row["Employee ID"] = employeeId)

\* The employee's ledger when the call of execution p runs alone on the
\* ledger the two executions started from.
AloneLedger(p) ==
  LedgerOf(addLoanTransaction(employees, SeededLoans(employees),
             procs[p].newRow.Timestamp, procs[p].data, procs[p].uuid,
             NoFault).loans,
           procs[p].employeeId)

\* C19: for every interleaving of two concurrent addLoanTransaction calls
\* for two different employees, once both have returned, each employee's
\* stored rows and balances are those of the calls run one after the other,
\* and each ledger satisfies the balance invariant.
C19_EmployeesIndependent ==
  ( /\ \A p \in Procs : procs[p].pc = "done" /\ procs[p].result.success
    /\ procs[1].employeeId # procs[2].employeeId )
  => \A p \in Procs :
       /\ LedgerOf(loans, procs[p].employeeId) = AloneLedger(p)
       /\ BalanceInvariant(loans, procs[p].employeeId)

\* Both calls have returned, each recorded a transaction dated before the
\* stored one of its employee, and the row appended first was built last.
C19_Witness ==
  /\ \A p \in Procs : procs[p].pc = "done" /\ procs[p].result.success
  /\ procs[1].employeeId # procs[2].employeeId
  /\ \A p \in Procs : procs[p].data.TransactionDate = 1
  /\ Len(loans) = 4
  /\ loans[3].Timestamp > loans[4].Timestamp

-----------------------------------------------------------------------------
(* The validators applied on their own, to forms with properties missing   *)

\* The object with the properties of obj that are in keys.
Restrict(obj, keys) == [key \in DOMAIN obj \cap keys |-> obj[key]]

\* Loan forms with any of the name, the amount and the date missing, the
\* name empty, and the amount zero or negative.
LoanForms ==
  { Restrict(LoanData(name, amount, 1, type), keys \cup {"LoanType"}) :
      name \in {"", "Ann"}, amount \in {-1, 0, 2}, type \in LoanTypes,
      keys \in SUBSET {"Employee Name", "LoanAmount", "TransactionDate"} }

\* Payslip forms with any of the name, the week ending, the hours and the
\* overtime hours missing, and hours that are negative or above the cap.
PayslipForms ==
  { Restrict(PayslipData(name, 2, hours, overtimeHours, 0, 0),
             keys \cup {"MINUTES"}) :
      name \in {"", "Ann"}, hours \in {-1, 40, 100, 169},
      overtimeHours \in {-1, 0, 70},
      keys \in SUBSET {"EMPLOYEE NAME", "WEEKENDING", "HOURS",
                       "OVERTIMEHOURS"} }

\* validateLoan(data)
ValidateLoan ==
  \E data \in LoanForms :
    /\ last' = [op |-> "validateLoan", data |-> data,
                result |-> validateLoan(data)]
    /\ UNCHANGED <<employees, loans, salary, now, procs, pending, returned>>

\* validatePayslip(data)
ValidatePayslip ==
  \E data \in PayslipForms :
    /\ last' = [op |-> "validatePayslip", data |-> data,
                result |-> validatePayslip(data)]
    /\ UNCHANGED <<employees, loans, salary, now, procs, pending, returned>>

ValidateNext ==
  \/ ValidateLoan
  \/ ValidatePayslip

ValidateSpec == Init /\ [][ValidateNext]_vars

\* The messages of the rules a loan form violates.
LoanViolations(data) ==
  (IF ~Has(data, "Employee Name") \/ data["Employee Name"] = ""
   THEN {"Employee name is required."} ELSE {})
  \cup (IF ~Has(data, "LoanAmount") \/ data.LoanAmount <= 0
        THEN {"Loan amount must be a positive number."} ELSE {})
  \cup (IF ~Has(data, "TransactionDate")
        THEN {"Transaction date is required."} ELSE {})

\* The messages of the rules a payslip form violates.
PayslipViolations(data) ==
  (IF ~Has(data, "EMPLOYEE NAME") \/ data["EMPLOYEE NAME"].s = ""
   THEN {"Employee Name is required"} ELSE {})
  \cup (IF ~Has(data, "WEEKENDING")
        THEN {"Week Ending date is required"} ELSE {})
  \cup (IF Amount(data, "HOURS") < 0 \/ Amount(data, "OVERTIMEHOURS") < 0
        THEN {"Hours cannot be negative"} ELSE {})
  \cup (IF Amount(data, "HOURS") + Amount(data, "OVERTIMEHOURS") > 168
        THEN {"Total hours exceed maximum possible (168 hours/week)"}
        ELSE {})

\* C20: the errors list validateLoan, and likewise validatePayslip, returns
\* holds one message for each rule the input violates, not just the first,
\* and the validity flag is true exactly when the list is empty.
C20_AllViolationsListed ==
  /\ last.op = "validateLoan" =>
       /\ Messages(last.result.errors) = LoanViolations(last.data)
       /\ Len(last.result.errors) = Cardinality(LoanViolations(last.data))
       /\ last.result.isValid <=> last.result.errors = <<>>
  /\ last.op = "validatePayslip" =>
       /\ Messages(last.result.errors) = PayslipViolations(last.data)
       /\ Len(last.result.errors) = Cardinality(PayslipViolations(last.data))
       /\ last.result.isValid <=> last.result.errors = <<>>

\* A form that violates every rule of validateLoan got three messages.
C20_Witness ==
  /\ last.op = "validateLoan"
  /\ Cardinality(LoanViolations(last.data)) = 3
  /\ Len(last.result.errors) = 3

-----------------------------------------------------------------------------
(* calculatePayslip called between payslips being created                  *)

\* Forms for calculatePayslip: a permanent employee with the optional
\* amounts, a temporary one without, and a name of no employee.
PureForms ==
  { PayslipDataOf("Ann", 40, 7, 3, 25, 1, 2, TRUE),
    PayslipDataOf("Bob", 40, 7, 3, 25, 1, 2, FALSE),
    PayslipDataOf("Zed", 40, 7, 3, 25, 1, 2, FALSE) }

\* calculatePayslip(data): it reads the employee sheet and writes nothing.
\* The caller keeps what it got, with the employee sheet and the number of
\* payslips stored at the time.
CalculatePayslipBetween ==
  \E data \in PureForms :
    LET result == calculatePayslip(employees, data) IN
    /\ last' = [op |-> "calculatePayslip", data |-> data, result |-> result]
    /\ returned' = returned \cup
                     { [data |-> data, employees |-> employees,
                        payslips |-> Len(salary), result |-> result] }
    /\ UNCHANGED <<employees, loans, salary, now, procs, pending>>

\* createPayslip(data) for a form it accepts and one it refuses.
CreatePayslipBetween ==
  \E data \in { PayslipData("Ann", 2, 40, 2, 1, 0),
                PayslipData("Zed", 2, 40, 0, 1, 2) } :
    LET out == createPayslip(employees, salary, now, data) IN
    /\ Len(salary) < MaxPayslips
    /\ salary' = out.salary
    /\ now' = IF Len(out.salary) > Len(salary) THEN now + 1 ELSE now
    /\ last' = [op |-> "createPayslip", data |-> data, result |-> out.result]
    /\ UNCHANGED <<employees, loans, procs, pending, returned>>

PureNext ==
  \/ CalculatePayslipBetween
  \/ CreatePayslipBetween

PureSpec == SeededInit /\ [][PureNext]_vars

-----------------------------------------------------------------------------
(* Ledger calls with Math.random() drawing different numbers               *)

\* addLoanTransaction(data), generateUUID drawing either number.
AddLoanTransactionDrawn ==
  \E data \in FaultLoanInputs, random \in IdDraws :
    AddLoan(data, random, NoFault)

IdNext == AddLoanTransactionDrawn

IdSpec == Init /\ [][IdNext]_vars

\* C22: loan transaction identifiers are unique and fixed.  After every
\* addLoanTransaction call no two stored rows carry the same LoanID, and
\* the LoanID of a row that was stored before the call is what it was.
C22_LoanIdsUnique ==
  [][ /\ \A i \in 1..Len(loans'), j \in 1..Len(loans') :
           i # j => loans'[i]["LoanID"] # loans'[j]["LoanID"]
      /\ \A i \in 1..Len(loans) :
           loans'[i]["LoanID"] = loans[i]["LoanID"] ]_vars

-----------------------------------------------------------------------------
(* Two executions of createPayslip at once: each store call is one step    *)

\* A payslip that was on the salary sheet before the script was installed,
\* numbered at the floor.
LegacyPayslip ==
  [ header \in SalaryHeaders |->
      CASE header = "RECORDNUMBER" -> Num(RecordNumberFloor)
        [] header = "TIMESTAMP" -> Date(0)
        [] header = "USER" -> getCurrentUser
        [] header = "EMPLOYEE NAME" -> Str("Ann")
        [] header = "WEEKENDING" -> Date(1)
        [] OTHER -> Num(0) ]

\* The salary sheet holds its header row only, or the legacy payslip too.
PayConcInit ==
  /\ employees = << EmployeeRow("Ann", "E1", 120, "Permanent"),
                    EmployeeRow("Bob", "E2", 60, "Temporary") >>
  /\ loans = <<>>
  /\ salary \in { <<>>, <<LegacyPayslip>> }
  /\ now = 1
  /\ last = [op |-> "none"]
  /\ procs = [p \in Procs |-> Idle]
  /\ pending = <<>>
  /\ returned = {}

\* The forms of the concurrent callers: two that are accepted, one that is
\* refused and one of no employee.
PayConcForms ==
  { PayslipData("Ann", 2, 40, 2, 1, 0),
    PayslipData("Bob", 2, 40, 2, 0, 2),
    PayslipData("Ann", 2, -1, 0, 0, 0),
    PayslipData("Zed", 2, 40, 0, 1, 2) }

\* The row createPayslip builds from the record number it has read.
newPayslipRow(calculatedData, data, lastRecordNumber, timestamp) ==
  [ header \in SalaryHeaders |->
      CASE header = "RECORDNUMBER" -> PlusOne(lastRecordNumber)
        [] header = "TIMESTAMP" -> Date(timestamp)
        [] header = "USER" -> getCurrentUser
        [] OTHER -> newPayslipCell(calculatedData, data, header) ]

\* validatePayslip and calculatePayslip: the call goes on, or returns.
BeginCreatePayslip(p) ==
  \E data \in PayConcForms :
    LET validation == validatePayslip(data)
        calculated == calculatePayslip(employees, data)
    IN /\ procs[p].pc = "idle"
       /\ procs' = [procs EXCEPT ![p] =
            IF ~validation.isValid
            THEN [pc |-> "done", data |-> data,
                  result |-> [success |-> FALSE,
                              errors |-> validation.errors]]
            ELSE IF calculated.threw
            THEN [pc |-> "done", data |-> data,
                  result |-> [success |-> FALSE,
                    message |-> "An error occurred while creating the payslip."]]
            ELSE [pc |-> "lastRow", data |-> data,
                  calculatedData |-> calculated.value]]
       /\ UNCHANGED <<employees, loans, salary, now, last, pending, returned>>

\* sheet.getLastRow(): row 1 is the header row.
GetLastRow(p) ==
  /\ procs[p].pc = "lastRow"
  /\ procs' = [procs EXCEPT ![p] =
       [pc |-> "getValue", data |-> procs[p].data,
        calculatedData |-> procs[p].calculatedData,
        lastRow |-> Len(salary) + 1]]
  /\ UNCHANGED <<employees, loans, salary, now, last, pending, returned>>

\* sheet.getRange(lastRow, 1).getValue() || 7915, then the new row with
\* new Date().
GetValue(p) ==
  LET cell == IF procs[p].lastRow = 1 THEN SalaryHeaderCell
              ELSE salary[procs[p].lastRow - 1]["RECORDNUMBER"]
      lastRecordNumber == IF Truthy(cell) THEN cell
                          ELSE Num(RecordNumberFloor)
  IN /\ procs[p].pc = "getValue"
     /\ procs' = [procs EXCEPT ![p] =
          [pc |-> "appendRow", data |-> procs[p].data,
           newRow |-> newPayslipRow(procs[p].calculatedData, procs[p].data,
                                    lastRecordNumber, now)]]
     /\ now' = now + 1
     /\ UNCHANGED <<employees, loans, salary, last, pending, returned>>

\* sheet.appendRow(newRow), and the call returns success.
AppendPayslipRow(p) ==
  /\ procs[p].pc = "appendRow"
  /\ salary' = Append(salary, procs[p].newRow)
  /\ procs' = [procs EXCEPT ![p] =
       [pc |-> "done", data |-> procs[p].data, newRow |-> procs[p].newRow,
        result |-> [success |-> TRUE,
                    message |-> "Payslip created successfully.",
                    recordNumber |-> procs[p].newRow["RECORDNUMBER"]]]]
  /\ UNCHANGED <<employees, loans, now, last, pending, returned>>

PayConcNext ==
  \E p \in Procs :
    \/ BeginCreatePayslip(p)
    \/ GetLastRow(p)
    \/ GetValue(p)
    \/ AppendPayslipRow(p)

PayConcSpec == PayConcInit /\ [][PayConcNext]_vars

\* C23: record numbers stay unique under concurrent creators.  Once two
\* createPayslip calls that ran at the same time have both returned success,
\* the rows they appended carry different RECORDNUMBER values, and each
\* differs from the number of every other stored payslip.
C23_ConcurrentRecordNumbers ==
  ( \A p \in Procs : procs[p].pc = "done" /\ procs[p].result.success )
  => \A i \in 1..Len(salary), j \in 1..Len(salary) :
       i # j => salary[i]["RECORDNUMBER"] # salary[j]["RECORDNUMBER"]

-----------------------------------------------------------------------------
(* Timesheets.js: approval and rejection of staged timesheets              *)

\* The index of the first data row whose RecordID is recordId, 0 when there
\* is none (the loop of approveTimesheet and of rejectTimesheet).
findRecord(sheet, recordId) ==
  LET matches == { i \in 1..Len(sheet) : sheet[i]["RecordID"] = Str(recordId) }
  IN IF matches = {} THEN 0
     ELSE CHOOSE i \in matches : \A j \in matches : i <= j

\* sheet.getRange(i + 2, statusCol + 1).setValue(status)
setStatus(sheet, i, status) ==
  [sheet EXCEPT ![i] = [@ EXCEPT !["Status"] = Str(status)]]

\* approveTimesheet that writes the status whatever createPayslip returned.
approveTimesheetUnchecked(sheet, sal, emps, recordId, timestamp) ==
  LET i == findRecord(sheet, recordId) IN
  IF i = 0
  THEN [pending |-> sheet, salary |-> sal,
        result |-> [success |-> FALSE,
                    message |-> "Timesheet record not found"]]
  ELSE
  LET created == createPayslip(emps, sal, timestamp, sheet[i]) IN
  [pending |-> setStatus(sheet, i, "Approved"), salary |-> created.salary,
   result |-> created.result]

\* approveTimesheet: the two sheets it leaves and the object it returns.
\* The payslip form is the stored row, keyed by the headers.
approveTimesheet(sheet, sal, emps, recordId, timestamp) ==
  LET i == findRecord(sheet, recordId) IN
  IF i = 0
  THEN [pending |-> sheet, salary |-> sal,
        result |-> [success |-> FALSE,
                    message |-> "Timesheet record not found"]]
  ELSE
  LET payslipData == sheet[i]
      created == createPayslip(emps, sal, timestamp, payslipData)
  IN IF ~created.result.success
     THEN [pending |-> sheet, salary |-> created.salary,
           result |-> created.result]
     ELSE [pending |-> setStatus(sheet, i, "Approved"),
           salary |-> created.salary,
           result |-> [success |-> TRUE,
                       message |-> "Timesheet approved and payslip created",
                       recordNumber |-> created.result.recordNumber]]

\* rejectTimesheet: the sheet it leaves and the object it returns.
rejectTimesheet(sheet, recordId) ==
  LET i == findRecord(sheet, recordId) IN
  IF i = 0
  THEN [pending |-> sheet,
        result |-> [success |-> FALSE,
                    message |-> "Timesheet record not found"]]
  ELSE [pending |-> setStatus(sheet, i, "Rejected"),
        result |-> [success |-> TRUE, message |-> "Timesheet rejected"]]

\* Imported records: one createPayslip accepts, one above the weekly cap
\* and one of no employee (stagePendingTimesheets stages all three).
ApprovalRecords ==
  { TimesheetRecord("Ann", 40, 2), TimesheetRecord("Bob", 100, 70),
    TimesheetRecord("Zed", 40, 2) }

\* The record ids of the calls: the two generateUUID can give here, and one
\* that no row has.
RecordIds == { generateUUID(random) : random \in IdDraws } \cup {"999999"}

\* stagePendingTimesheets([record])
StageTimesheet ==
  \E record \in ApprovalRecords, random \in IdDraws :
    LET out == stagePendingTimesheets(pending, <<record>>,
                                      <<random>>, now) IN
    /\ Len(out.pending) <= MaxPending
    /\ pending' = out.pending
    /\ now' = IF Len(out.pending) > Len(pending) THEN now + 1 ELSE now
    /\ last' = [op |-> "stagePendingTimesheets", data |-> <<record>>,
                result |-> out.result]
    /\ UNCHANGED <<employees, loans, salary, procs, returned>>

\* approveTimesheet(recordId)
ApproveTimesheet ==
  \E recordId \in RecordIds :
    \E out \in {approveTimesheet(pending, salary, employees, recordId, now)} :
    /\ Len(salary) < MaxPayslips
    /\ pending' = out.pending
    /\ salary' = out.salary
    /\ now' = IF Len(out.salary) > Len(salary) THEN now + 1 ELSE now
    /\ last' = [op |-> "approveTimesheet", data |-> recordId,
                result |-> out.result]
    /\ UNCHANGED <<employees, loans, procs, returned>>

\* rejectTimesheet(recordId)
RejectTimesheet ==
  \E recordId \in RecordIds :
    LET out == rejectTimesheet(pending, recordId) IN
    /\ pending' = out.pending
    /\ last' = [op |-> "rejectTimesheet", data |-> recordId,
                result |-> out.result]
    /\ UNCHANGED <<employees, loans, salary, now, procs, returned>>

ApprovalNext ==
  \/ StageTimesheet
  \/ ApproveTimesheet
  \/ RejectTimesheet

ApprovalSpec == Init /\ [][ApprovalNext]_vars

\* The headers a timesheet row and a payslip row share.
TimesheetFields ==
  { "EMPLOYEE NAME", "WEEKENDING", "HOURS", "MINUTES", "OVERTIMEHOURS",
    "OVERTIMEMINUTES" }

\* Payslip row `payslip` holds what timesheet row `timesheet` holds.
CreatedFrom(payslip, timesheet) ==
  \A header \in TimesheetFields : payslip[header] = timesheet[header]

\* The indices of the approved rows of the sheet.
Approved(sheet) ==
  { i \in 1..Len(sheet) : sheet[i]["Status"] = Str("Approved") }

\* Every approved timesheet has a payslip row of its own created from it.
ApprovedHavePayslips(sheet, sal) ==
  \E f \in [Approved(sheet) -> 1..Len(sal)] :
    /\ \A i \in Approved(sheet) : CreatedFrom(sal[f[i]], sheet[i])
    /\ \A i \in Approved(sheet), j \in Approved(sheet) :
         i # j => f[i] # f[j]

\* C24: approveTimesheet marks a timesheet Approved only after its payslip
\* was created.  When createPayslip fails for the record, approveTimesheet
\* returns that failure and leaves the PendingTimesheets sheet and the
\* salary sheet as they were; when approveTimesheet fails for any reason it
\* changes neither; and after every call each approved timesheet has a
\* payslip row of its own created from it.
C24_ApprovedAfterPayslip ==
  [][ /\ last'.op = "approveTimesheet" =>
           LET i == findRecord(pending, last'.data) IN
           /\ ~last'.result.success =>
                pending' = pending /\ salary' = salary
           /\ ( i # 0 /\ ~createPayslip(employees, salary, now,
                                        pending[i]).result.success )
                => /\ last'.result
                        = createPayslip(employees, salary, now,
                                        pending[i]).result
                   /\ pending' = pending /\ salary' = salary
      /\ ApprovedHavePayslips(pending', salary') ]_vars

\* approveTimesheet has failed on a staged record above the weekly cap and
\* on one of no employee, beside a timesheet that is approved and has its
\* payslip.
C24_Witness ==
  /\ last.op = "approveTimesheet" /\ ~last.result.success
  /\ findRecord(pending, last.data) # 0
  /\ pending[findRecord(pending, last.data)]["Status"] = Str("Pending")
  /\ Approved(pending) # {}
  /\ Len(salary) > 0

\* C25: each staged timesheet produces at most one payslip.  A call of
\* approveTimesheet for a record whose Status is already 'Approved' or
\* 'Rejected' appends no salary row, and a record whose Status is
\* 'Approved' keeps that Status under every call.
C25_AtMostOnePayslip ==
  [][ /\ last'.op = "approveTimesheet" =>
           LET i == findRecord(pending, last'.data) IN
           ( i # 0 /\ pending[i]["Status"] \in {Str("Approved"), Str("Rejected")} )
             => salary' = salary
      /\ \A i \in Approved(pending) : i \in Approved(pending') ]_vars

\* C26: the outstanding loan balance never goes negative.  After every
\* successful addLoanTransaction call every stored BalanceAfter is at least
\* 0, and so is getCurrentLoanBalance of every employee.
C26_BalanceNeverNegative ==
  /\ \A i \in 1..Len(loans) : loans[i].BalanceAfter >= 0
  /\ \A employeeId \in EmployeeIds(employees) :
       getCurrentLoanBalance(loans, employeeId) >= 0

====
